---- MODULE Spec2Model ----
(***************************************************************************)
(* A model of pogodata.PogoData (src/pogodata/pogodata.py): the enum cache *)
(* and parser, the locale table, the attribute-equality query index and    *)
(* the four-pass creature list builder.                                    *)
(*                                                                         *)
(* Encoding of Python values                                               *)
(*   str        a sequence of tokens; a token is a TLA+ string that stands *)
(*              for a piece of the text ("a", "A", "POKEMON_TYPE_", ...).  *)
(*              Strings that the code lower-cases are written one          *)
(*              character per token, except tokens that are lower-case     *)
(*              already ("pokemon_name_").                                 *)
(*   None       for a str-or-None value the reserved string NoneS, for an  *)
(*              int-or-None value NoneI (ints are then <<n>>), for an      *)
(*              object reference 0.                                        *)
(*   dict       a sequence of <<key, value>> pairs in insertion order,     *)
(*              keys unique (Python dicts keep insertion order). The keys  *)
(*              and values of an enum mapping carry their Python type,     *)
(*              PyStr(s) or PyInt(n): an inverted mapping has int keys.    *)
(*   object     Pokemon objects live in `heap`; a reference is an index    *)
(*              into it. Type/Move/Item/Grunt objects are never mutated,   *)
(*              a reference to one is its index in its list.               *)
(***************************************************************************)
EXTENDS Integers, Sequences, FiniteSets, TLC

VARIABLES
    raw_protos,      \* self.raw_protos: the protocol text, as its enum blocks
    raw_gamemaster,  \* self.raw_gamemaster: the settings dump
    raw_locale,      \* the locale array fetched by the latest reload
    locale,          \* self.locale
    cached_enums,    \* self.__cached_enums
    items,           \* self.items
    types,           \* self.types
    moves,           \* self.moves
    grunts,          \* self.grunts
    heap,            \* the Pokemon objects allocated by the latest build
    mons,            \* self.mons: references into heap
    call,            \* the latest operation and its arguments
    ret              \* its outcome: [raised |-> exception name or "", value |-> ...]

vars == <<raw_protos, raw_gamemaster, raw_locale, locale, cached_enums, items,
          types, moves, grunts, heap, mons, call, ret>>

catalog == <<items, types, moves, grunts, heap, mons, locale>>

-----------------------------------------------------------------------------
(* Bounds of the model *)

MaxOverrides == 2      \* tempEvoOverrides entries of one settings record
MaxFormEntries == 2    \* entries of one formSettings "forms" list
MaxLocalePairs == 2    \* key/value pairs of the locale array (plus a dangling key)

-----------------------------------------------------------------------------
(* Python values *)

NoneS == <<"<None>">>
AbsentS == <<"<absent>">>
NoneI == <<>>
NoRaise == ""
PyStr(s) == [str |-> s]
PyInt(n) == [int |-> n]

\* dict.get(key) on a JSON object field: absent and null both give None
Get(rawv) == IF rawv = AbsentS THEN NoneS ELSE rawv

\* truthiness of a str-or-None value
Truthy(v) == v /= NoneS /\ v /= <<>>

UpperChars == <<"A","B","C","D","E","F","G","H","I","J","K","L","M",
                "N","O","P","Q","R","S","T","U","V","W","X","Y","Z">>
LowerChars == <<"a","b","c","d","e","f","g","h","i","j","k","l","m",
                "n","o","p","q","r","s","t","u","v","w","x","y","z">>

LowerChar(c) ==
    IF \E i \in DOMAIN UpperChars : UpperChars[i] = c
    THEN LowerChars[CHOOSE i \in DOMAIN UpperChars : UpperChars[i] = c]
    ELSE c

\* str.lower()
lower(s) == [i \in DOMAIN s |-> LowerChar(s[i])]

DigitChars == <<"0","1","2","3","4","5","6","7","8","9">>
Digit(d) == DigitChars[d + 1]

\* str(n).zfill(4) for an int-or-None n (str(None) is "None")
zfill4(n) ==
    IF n = NoneI THEN <<"N","o","n","e">>
    ELSE LET v == n[1] IN
         <<Digit((v \div 1000) % 10), Digit((v \div 100) % 10),
           Digit((v \div 10) % 10), Digit(v % 10)>>

(* dicts *)
EmptyDict == <<>>
HasKey(d, k) == \E i \in DOMAIN d : d[i][1] = k
DictGet(d, k, default) ==
    IF HasKey(d, k) THEN d[CHOOSE i \in DOMAIN d : d[i][1] = k][2] ELSE default
DictSet(d, k, v) ==
    IF HasKey(d, k)
    THEN [i \in DOMAIN d |-> IF d[i][1] = k THEN <<k, v>> ELSE d[i]]
    ELSE Append(d, <<k, v>>)

RECURSIVE DictFromPairs(_, _)
\* the dict built by assigning the pairs of ps, in order, into d
DictFromPairs(d, ps) ==
    IF ps = <<>> THEN d
    ELSE DictFromPairs(DictSet(d, ps[1][1], ps[1][2]), Tail(ps))

\* {value: key for key, value in final.items()}
Invert(d) == DictFromPairs(EmptyDict, [i \in DOMAIN d |-> <<d[i][2], d[i][1]>>])

-----------------------------------------------------------------------------
(* EnumIndex: get_enum *)

FormName == <<"F","o","r","m">>
MegaName == <<"H","o","l","o","T","e","m","p","o","r","a","r","y",
              "E","v","o","l","u","t","i","o","n","I","d">>
MonIdName == <<"H","o","l","o","P","o","k","e","m","o","n","I","d">>

\* re.findall("enum <enum> {[^}]*}", raw_protos, re.IGNORECASE): the blocks
\* whose name equals enum ignoring case, in text order
FindAll(protos, enum) ==
    SelectSeq(protos, LAMBDA b : lower(b.name) = lower(enum))

\* the loop over the block's "KEY = value;" lines
ParseBlock(b) ==
    DictFromPairs(EmptyDict, [i \in DOMAIN b.entries |->
                                 <<PyStr(b.entries[i].k), PyInt(b.entries[i].v)>>])

\* get_enum once the cache and the text are read: cached is
\* self.__cached_enums.get(enum.lower()) (None and {} are both falsy), proto
\* the blocks found
Resolve(cache, key, cached, proto, reverse) ==
    IF cached /= EmptyDict
    THEN [raised |-> NoRaise, value |-> cached, cached_enums |-> cache]
    ELSE IF Len(proto) = 0
    THEN [raised |-> "KeyError", value |-> EmptyDict, cached_enums |-> cache]
    ELSE [raised |-> NoRaise,
          value |-> IF reverse THEN Invert(ParseBlock(proto[1]))
                    ELSE ParseBlock(proto[1]),
          cached_enums |-> DictSet(cache, key, ParseBlock(proto[1]))]

\* PogoData.get_enum: the outcome and the cache after the call
get_enum(cache, protos, enum, reverse) ==
    Resolve(cache, lower(enum), DictGet(cache, lower(enum), EmptyDict),
            FindAll(protos, enum), reverse)

-----------------------------------------------------------------------------
(* LocaleTable *)

RECURSIVE LocaleLoop(_, _, _)
\* for i in range(0, len(raw_locale), 2): self.locale[raw_locale[i]] = raw_locale[i+1]
\* (array is raw_locale; positions count from 1)
LocaleLoop(loc, array, i) ==
    IF i > Len(array) THEN [raised |-> NoRaise, locale |-> loc]
    ELSE IF i + 1 > Len(array) THEN [raised |-> "IndexError", locale |-> loc]
    ELSE LocaleLoop(DictSet(loc, array[i], array[i + 1]), array, i + 2)

\* PogoData.get_locale: the value returned and the table after the call
get_locale(loc, key) ==
    [value |-> DictGet(loc, lower(key), <<"?">>), locale |-> loc]

-----------------------------------------------------------------------------
(* RecordSource: get_gamemaster *)

\* A templateId is a token sequence: <<"V0001_POKEMON_", "PIKACHU">>,
\* <<"FORMS_", "V0001_POKEMON_", "PIKACHU">>, <<"POKEMON_TYPE_", "FIRE">>, ...
\* The tokens that match V\d{4}_POKEMON_
VPokemonTokens == {"V0001_POKEMON_", "V0002_POKEMON_"}

\* re.search(r"^V\d{4}_POKEMON_.*", templateid)
IsPokemonId(tid) == Len(tid) >= 1 /\ tid[1] \in VPokemonTokens
\* re.search(r"^FORMS_V\d{4}_POKEMON_.*", templateid)
IsFormsId(tid) == Len(tid) >= 2 /\ tid[1] = "FORMS_" /\ tid[2] \in VPokemonTokens
\* re.search(r"^TEMPORARY_EVOLUTION_V\d{4}_POKEMON_.*", templateid)
IsTempEvoId(tid) ==
    Len(tid) >= 2 /\ tid[1] = "TEMPORARY_EVOLUTION_" /\ tid[2] \in VPokemonTokens

\* the payload of a record that lacks the requested sub-key: {}
EmptySettings == [none |-> AbsentS]

\* raw.get(key) for a str-or-None field, raw.get(key, []) for a list field
RawGet(raw, key) == IF key \in DOMAIN raw THEN Get(raw[key]) ELSE NoneS
RawList(raw, key) == IF key \in DOMAIN raw THEN raw[key] ELSE <<>>
RawHas(raw, key) == key \in DOMAIN raw /\ raw[key] /= AbsentS

\* re.search(pattern, templateid) for the three patterns the build uses
Search(pattern, tid) ==
    CASE pattern = "^V\\d{4}_POKEMON_.*" -> IsPokemonId(tid)
      [] pattern = "^FORMS_V\\d{4}_POKEMON_.*" -> IsFormsId(tid)
      [] pattern = "^TEMPORARY_EVOLUTION_V\\d{4}_POKEMON_.*" -> IsTempEvoId(tid)

\* the records get_gamemaster keeps, with the payload under the sub-key
\* ({} when the record lacks it). Every record of the model carries "data"
\* with one sub-key.
Payloads(hits, settings) ==
    [i \in DOMAIN hits |->
        [templateId |-> hits[i].templateId,
         data |-> IF hits[i].settings = settings
                  THEN hits[i].data ELSE EmptySettings]]

\* PogoData.get_gamemaster(pattern, settings)
get_gamemaster(gm, pattern, settings) ==
    Payloads(SelectSeq(gm, LAMBDA e : Search(pattern, e.templateId)), settings)

-----------------------------------------------------------------------------
(* Entity factories (game_objects.py, moves.py, grunts.py) *)

StartsWith(s, tok) == Len(s) >= 1 /\ s[1] = tok

make_list(gm, tok, strip) ==
    LET hits == SelectSeq(gm, LAMBDA e : StartsWith(e.templateId, tok))
    IN  [i \in DOMAIN hits |->
            [template |-> IF strip THEN Tail(hits[i].templateId)
                          ELSE hits[i].templateId]]

make_type_list(gm) == make_list(gm, "POKEMON_TYPE_", FALSE)
make_item_list(gm) == make_list(gm, "ITEM_", FALSE)
make_move_list(gm) == make_list(gm, "V0001_MOVE_", TRUE)
make_grunt_list(gm) == make_list(gm, "CHARACTER_", FALSE)

-----------------------------------------------------------------------------
(* Pokemon objects (mons.py) *)

POKEMON_TYPES == <<"BASE", "FORM", "TEMP_EVOLUTION">>

\* Pokemon.__init__(gamemaster_entry, form_id, template, mon_id)
Pokemon(entry, form_id, template, mon_id) ==
    [template |-> template,
     id |-> mon_id,
     form |-> <<form_id>>,
     type |-> POKEMON_TYPES[1],
     name |-> <<"?">>,
     types |-> <<>>,
     quick_moves |-> <<>>,
     charge_moves |-> <<>>,
     evolutions |-> <<>>,
     temp_evolutions |-> <<>>,
     base_template |-> template,
     temp_evolution_template |-> NoneS,
     temp_evolution_id |-> NoneI,
     asset_value |-> NoneS,
     asset_suffix |-> NoneS,
     asset |-> <<>>,
     costume |-> 0,
     raw |-> entry]

\* Pokemon._gen_asset(): the asset identifier composed from the fields
gen_asset(m) ==
    [m EXCEPT !.asset = <<[id |-> m.id, form |-> m.form, type |-> m.type,
                           asset_value |-> m.asset_value,
                           asset_suffix |-> m.asset_suffix,
                           costume |-> m.costume]>>]

RECURSIVE CopyObj(_, _), CopyRefs(_, _)
\* Pokemon.copy(): a deep copy. The objects reachable through
\* temp_evolutions and evolutions are copied too (during a build they form a
\* tree); the copy is the last object of the new heap.
CopyObj(h, o) ==
    LET te == CopyRefs(h, h[o].temp_evolutions)
        ev == CopyRefs(te.heap, h[o].evolutions)
        new == [h[o] EXCEPT !.temp_evolutions = te.refs, !.evolutions = ev.refs]
    IN  [heap |-> Append(ev.heap, new), ref |-> Len(ev.heap) + 1]

CopyRefs(h, refs) ==
    IF refs = <<>> THEN [heap |-> h, refs |-> <<>>]
    ELSE IF refs[1] = 0
    THEN LET rest == CopyRefs(h, Tail(refs))
         IN  [heap |-> rest.heap, refs |-> <<0>> \o rest.refs]
    ELSE LET first == CopyObj(h, refs[1])
             rest == CopyRefs(first.heap, Tail(refs))
         IN  [heap |-> rest.heap, refs |-> <<first.ref>> \o rest.refs]

-----------------------------------------------------------------------------
(* QueryIndex: __get_object and the finders *)

\* the inner loop of __get_object: obj.__dict__.get(key) != value for no key
\* (a criterion of the model always names an attribute the objects have)
Wanted(obj, args) ==
    \A key \in DOMAIN args : key \in DOMAIN obj /\ obj[key] = args[key]

\* the positions of the wanted objects, in list order
AllWanted(objs, args) ==
    SelectSeq([i \in DOMAIN objs |-> i], LAMBDA i : Wanted(objs[i], args))

\* what __get_object returns: for match_one the first match (<<>> is None),
\* else every match
FirstOrAll(final, match_one) ==
    IF match_one /\ final /= <<>> THEN <<final[1]>> ELSE final

\* PogoData.__get_object, as positions in obj_list
get_object(objs, args, match_one) == FirstOrAll(AllWanted(objs, args), match_one)

\* a finder's result: None, an object or a list of objects
Found(hits, match_one) ==
    IF ~match_one THEN [kind |-> "list", refs |-> hits]
    ELSE IF hits = <<>> THEN [kind |-> "None", refs |-> <<>>]
    ELSE [kind |-> "object", refs |-> hits]

\* the reference a single-match result denotes (0 for None)
Ref(found) == IF found.kind = "object" THEN found.refs[1] ELSE 0

Objects(h, ms) == [i \in DOMAIN ms |-> h[ms[i]]]
Refs(ms, hits) == [i \in DOMAIN hits |-> ms[hits[i]]]

\* self.__get_object(self.mons, args, get_one)
get_mon_object(h, ms, get_one, args) ==
    Found(Refs(ms, get_object(Objects(h, ms), args, get_one)), get_one)

\* the arguments without the costume criterion
WithoutCostume(args) == [key \in DOMAIN args \ {"costume"} |-> args[key]]

\* args.get("costume", 0)
CostumeOf(args) == IF "costume" \in DOMAIN args THEN args.costume ELSE 0

\* the costume set on the object found, with no copy made
costume_in_place(h, mon, args) ==
    IF CostumeOf(args) > 0
    THEN IF mon.kind /= "object"
         THEN [raised |-> "AttributeError", value |-> mon, heap |-> h]
         ELSE [raised |-> NoRaise, value |-> mon,
               heap |-> [h EXCEPT ![Ref(mon)] =
                            gen_asset([@ EXCEPT !.costume = args.costume])]]
    ELSE [raised |-> NoRaise, value |-> mon, heap |-> h]

\* get_mon, lines 87-92: the costume is set on a copy, which is returned to
\* the caller and is no object of the catalog. The result names the object
\* copied and the costume and asset of the copy.
costume_copy(h, mon, args) ==
    IF CostumeOf(args) > 0
    THEN IF mon.kind /= "object"
         \* None.copy(), or list.copy() followed by list.costume = ...
         THEN [raised |-> "AttributeError", value |-> mon, heap |-> h]
         ELSE [raised |-> NoRaise,
               value |-> [kind |-> "copy", refs |-> mon.refs,
                          costume |-> args.costume,
                          asset |-> gen_asset([h[Ref(mon)] EXCEPT
                                        !.costume = args.costume]).asset],
               heap |-> h]
    ELSE [raised |-> NoRaise, value |-> mon, heap |-> h]

get_mon_in_place(h, ms, get_one, args) ==
    costume_in_place(h, get_mon_object(h, ms, get_one, WithoutCostume(args)), args)

\* PogoData.get_mon: the outcome and the heap after the call
get_mon(h, ms, get_one, args) ==
    costume_copy(h, get_mon_object(h, ms, get_one, args), args)

\* get_type, lines 95-97: the template criterion gets the POKEMON_TYPE_ prefix
TypeArgsOf(args) ==
    IF "template" \in DOMAIN args /\ ~StartsWith(args.template, "POKEMON_TYPE_")
    THEN [args EXCEPT !.template = <<"POKEMON_TYPE_">> \o @]
    ELSE args

\* PogoData.get_type, get_item, get_move, get_grunt
get_type(tps, args) == Found(get_object(tps, TypeArgsOf(args), TRUE), TRUE)
get_item(its, args) == Found(get_object(its, args, TRUE), TRUE)
get_move(mvs, args) == Found(get_object(mvs, args, TRUE), TRUE)
get_grunt(grs, args) == Found(get_object(grs, args, TRUE), TRUE)
-----------------------------------------------------------------------------
(* CreatureGraphBuilder: __make_mon_list *)

\* A build state st is the heap, self.mons and the exception that stopped
\* the build (NoRaise while it runs). env holds what the passes read: the
\* enums, the locale table and the type and move lists.

\* dict.get(key) -> int or None
EnumGet(d, k) ==
    IF HasKey(d, PyStr(k)) THEN <<DictGet(d, PyStr(k), PyInt(0)).int>> ELSE NoneI

TypeRefs(tps, kept) ==
    [i \in DOMAIN kept |-> Ref(get_type(tps, [template |-> kept[i]]))]

typing_not_none(tps, mon, type1ref, type2ref) ==
    [mon EXCEPT !.types = @ \o TypeRefs(tps,
        SelectSeq(<<RawGet(mon.raw, type1ref), RawGet(mon.raw, type2ref)>>,
                  LAMBDA t : t /= NoneS))]

\* __typing(mon, type1ref, type2ref)
typing(tps, mon, type1ref, type2ref) ==
    [mon EXCEPT !.types = @ \o TypeRefs(tps,
        SelectSeq(<<RawGet(mon.raw, type1ref), RawGet(mon.raw, type2ref)>>,
                  Truthy))]

MoveRefs(mvs, templates) ==
    [i \in DOMAIN templates |-> Ref(get_move(mvs, [template |-> templates[i]]))]

\* locale_key = "pokemon_name_" + str(mon.id).zfill(4)
LocaleKey(mon) == <<"pokemon_name_">> \o zfill4(<<mon.id>>)

(* Pass 1: base creatures and their temporary evolutions *)

append_variant_to_copy(st, ref, evo) ==
    [st EXCEPT !.mons = Append(@, evo),
               !.heap = [@ EXCEPT ![evo].temp_evolutions = Append(@, evo)]]

\* self.mons.append(evo); mon.temp_evolutions.append(evo)
append_variant(st, ref, evo) ==
    [st EXCEPT !.mons = Append(@, evo),
               !.heap = [@ EXCEPT ![ref].temp_evolutions = Append(@, evo)]]

\* lines 186-196: the copy evo of the base creature becomes the variant
Variant(evo, temp_evo, temp_evolution_id, locale_key, env) ==
    typing(env.types,
           [evo EXCEPT
              !.type = POKEMON_TYPES[3],
              !.temp_evolution_template = RawGet(temp_evo, "tempEvoId"),
              !.temp_evolution_id = temp_evolution_id,
              !.raw = temp_evo,
              !.name = get_locale(env.locale,
                           locale_key \o <<"_">> \o zfill4(temp_evolution_id)).value,
              !.types = <<>>],
           "typeOverride1", "typeOverride2")

\* the loop body once the copy c of the base creature exists
StoreVariant(st, ref, c, temp_evo, locale_key, env) ==
    append_variant(
        [st EXCEPT !.heap = [c.heap EXCEPT ![c.ref] =
            Variant(@, temp_evo, EnumGet(env.megas, RawGet(temp_evo, "tempEvoId")),
                    locale_key, env)]],
        ref, c.ref)

\* the body of the loop over mon.raw.get("tempEvoOverrides", [])
TempEvoStep(st, ref, temp_evo, locale_key, env) ==
    StoreVariant(st, ref, CopyObj(st.heap, ref), temp_evo, locale_key, env)

RECURSIVE TempEvoLoop(_, _, _, _, _)
TempEvoLoop(st, ref, overrides, locale_key, env) ==
    IF overrides = <<>> THEN st
    ELSE TempEvoLoop(TempEvoStep(st, ref, overrides[1], locale_key, env),
                     ref, Tail(overrides), locale_key, env)

\* lines 173-177: the name and the moves
Named(mon, env) ==
    [mon EXCEPT
       !.name = get_locale(env.locale, LocaleKey(mon)).value,
       !.quick_moves = MoveRefs(env.moves, RawList(mon.raw, "quickMoves")),
       !.charge_moves = MoveRefs(env.moves, RawList(mon.raw, "cinematicMoves"))]

\* lines 168-179: the creature of one record; template is
\* re.sub(pattern, "", templateid)
BaseMon(entry, template, env) ==
    typing(env.types,
           Named(Pokemon(entry, DictGet(env.forms, PyStr(template), PyInt(0)).int, template,
                         DictGet(env.mon_ids, PyStr(template), PyInt(0)).int), env),
           "type", "type2")

\* lines 181-199: the creature is appended, then its variants
AddBase(st, mon, env) ==
    TempEvoLoop([st EXCEPT !.heap = Append(@, mon), !.mons = Append(@, Len(st.heap) + 1)],
                Len(st.heap) + 1, RawList(mon.raw, "tempEvoOverrides"),
                LocaleKey(mon), env)

\* the body of the loop over the pokemonSettings records
Pass1Step(st, rec, env) ==
    AddBase(st, BaseMon(rec.data, Tail(rec.templateId), env), env)

RECURSIVE Pass1Loop(_, _, _)
Pass1Loop(st, recs, env) ==
    IF recs = <<>> THEN st
    ELSE Pass1Loop(Pass1Step(st, recs[1], env), Tail(recs), env)

Pass1(st, gm, env) ==
    Pass1Loop(st, get_gamemaster(gm, "^V\\d{4}_POKEMON_.*", "pokemonSettings"), env)

(* Pass 2: forms *)

\* self.get_mon(**args) where the build calls it: no costume, one match
FindMon(st, args) == Ref(get_mon(st.heap, st.mons, TRUE, args).value)

\* lines 210-213: the copy c becomes the form and is appended
StoreForm(st, c, template, env) ==
    [st EXCEPT !.heap = [c.heap EXCEPT ![c.ref] =
                   [@ EXCEPT !.type = POKEMON_TYPES[2],
                             !.template = template,
                             !.form = EnumGet(env.form_enums, template)]],
               !.mons = Append(@, c.ref)]

\* line 209: mon.copy() of the creature found for formsettings["pokemon"]
CopyBase(st, base, form, env) ==
    IF base = 0 THEN [st EXCEPT !.raised = "AttributeError"]   \* None.copy()
    ELSE StoreForm(st, CopyObj(st.heap, base), RawGet(form, "form"), env)

\* the "if not mon:" branch
NewForm(st, formsettings, form, env) ==
    IF ~RawHas(formsettings, "pokemon")
    THEN [st EXCEPT !.raised = "KeyError"]           \* formsettings["pokemon"]
    ELSE CopyBase(st, FindMon(st, [template |-> formsettings.pokemon]), form, env)

\* lines 215-220: the asset fields of a form entry, set on creature ref
SetFormAsset(st, ref, form) ==
    IF Truthy(RawGet(form, "assetBundleValue")) \/ Truthy(RawGet(form, "assetBundleSuffix"))
    THEN [st EXCEPT !.heap = [@ EXCEPT ![ref] =
             gen_asset([@ EXCEPT !.asset_value = RawGet(form, "assetBundleValue"),
                                 !.asset_suffix = RawGet(form, "assetBundleSuffix")])]]
    ELSE st

\* the assets of a form just made (the last creature of the list)
AssetOfNew(made, form) ==
    IF made.raised /= NoRaise THEN made
    ELSE SetFormAsset(made, made.mons[Len(made.mons)], form)

\* lines 207-220, mon being what get_mon(template=form.get("form")) gave
FormOf(st, mon, formsettings, form, env) ==
    IF mon /= 0 THEN SetFormAsset(st, mon, form)
    ELSE AssetOfNew(NewForm(st, formsettings, form, env), form)

FormStep_no_lookup(st, formsettings, form, env) ==
    FormOf(st, 0, formsettings, form, env)

\* the body of the loop over formsettings.get("forms", [])
FormStep(st, formsettings, form, env) ==
    FormOf(st, FindMon(st, [template |-> RawGet(form, "form")]),
           formsettings, form, env)

RECURSIVE FormLoop(_, _, _, _)
FormLoop(st, formsettings, forms, env) ==
    IF forms = <<>> \/ st.raised /= NoRaise THEN st
    ELSE FormLoop(FormStep(st, formsettings, forms[1], env),
                  formsettings, Tail(forms), env)

RECURSIVE Pass2Loop(_, _, _)
Pass2Loop(st, recs, env) ==
    IF recs = <<>> \/ st.raised /= NoRaise THEN st
    ELSE Pass2Loop(FormLoop(st, recs[1].data, RawList(recs[1].data, "forms"), env),
                   Tail(recs), env)

Pass2(st, gm, env) ==
    Pass2Loop(st, get_gamemaster(gm, "^FORMS_V\\d{4}_POKEMON_.*", "formSettings"), env)

(* Pass 3: temporary evolution assets *)

\* lines 235-236, mon being what get_mon gave
SetTempAsset(st, mon, temp_evo_raw) ==
    IF ~RawHas(temp_evo_raw, "assetBundleValue")
    THEN [st EXCEPT !.raised = "KeyError"]       \* the right-hand side comes first
    ELSE IF mon = 0
    THEN [st EXCEPT !.raised = "AttributeError"] \* None.asset_value = ...
    ELSE [st EXCEPT !.heap = [@ EXCEPT ![mon] =
             gen_asset([@ EXCEPT !.asset_value = temp_evo_raw.assetBundleValue])]]

\* the body of the loop over evos.get("temporaryEvolutions", [])
TempAssetStep(st, base_template, temp_evo_raw) ==
    IF ~RawHas(temp_evo_raw, "temporaryEvolutionId")
    THEN [st EXCEPT !.raised = "KeyError"]
    ELSE SetTempAsset(st,
             FindMon(st, [base_template |-> base_template,
                          temp_evolution_template |-> temp_evo_raw.temporaryEvolutionId]),
             temp_evo_raw)

RECURSIVE TempAssetLoop(_, _, _)
TempAssetLoop(st, base_template, evos) ==
    IF evos = <<>> \/ st.raised /= NoRaise THEN st
    ELSE TempAssetLoop(TempAssetStep(st, base_template, evos[1]),
                       base_template, Tail(evos))

\* evos.get("pokemonId", "")
PokemonIdOf(evos) ==
    IF "pokemonId" \in DOMAIN evos /\ evos.pokemonId /= AbsentS
    THEN evos.pokemonId ELSE <<>>

RECURSIVE Pass3Loop(_, _)
Pass3Loop(st, recs) ==
    IF recs = <<>> \/ st.raised /= NoRaise THEN st
    ELSE Pass3Loop(TempAssetLoop(st, PokemonIdOf(recs[1].data),
                                 RawList(recs[1].data, "temporaryEvolutions")),
                   Tail(recs))

Pass3(st, gm) ==
    Pass3Loop(st, get_gamemaster(gm, "^TEMPORARY_EVOLUTION_V\\d{4}_POKEMON_.*",
                                  "temporaryEvolutionSettings"))

(* Pass 4: evolutions *)

\* evo_raw.get("form", evo_raw["evolution"])
EvolutionTarget(evo_raw) ==
    IF RawHas(evo_raw, "form") THEN evo_raw.form ELSE evo_raw.evolution

\* the body of the loop over mon.raw.get("evolutionBranch", [])
EvolutionStep(st, ref, evo_raw) ==
    IF RawHas(evo_raw, "temporaryEvolution") THEN st        \* continue
    ELSE IF ~RawHas(evo_raw, "evolution")
    THEN [st EXCEPT !.raised = "KeyError"]   \* evo_raw["evolution"], the default
    ELSE [st EXCEPT !.heap = [@ EXCEPT ![ref].evolutions =
             Append(@, FindMon(st, [template |-> EvolutionTarget(evo_raw)]))]]

RECURSIVE EvolutionLoop(_, _, _)
EvolutionLoop(st, ref, evolutions) ==
    IF evolutions = <<>> \/ st.raised /= NoRaise THEN st
    ELSE EvolutionLoop(EvolutionStep(st, ref, evolutions[1]), ref, Tail(evolutions))

RECURSIVE Pass4Loop(_, _)
\* for mon in self.mons, from position i on
Pass4Loop(st, i) ==
    IF i > Len(st.mons) \/ st.raised /= NoRaise THEN st
    ELSE Pass4Loop(EvolutionLoop(st, st.mons[i],
                                 RawList(st.heap[st.mons[i]].raw, "evolutionBranch")),
                   i + 1)

Pass4(st) == Pass4Loop(st, 1)

(* __make_mon_list and reload *)

\* self.mons = []
NoMons == [heap |-> <<>>, mons |-> <<>>, raised |-> NoRaise]

Passes(gm, env) == Pass4(Pass3(Pass2(Pass1(NoMons, gm, env), gm, env), gm))

\* the outcome of __make_mon_list: the build state and the enum cache
Outcome(st, cache) ==
    [heap |-> st.heap, mons |-> st.mons, raised |-> st.raised, cached_enums |-> cache]

\* get_enum raised: the list stays empty
NoEnum(e) == Outcome([NoMons EXCEPT !.raised = e.raised], e.cached_enums)

\* line 202 on: form_enums is the second get_enum("Form")
WithFormEnums(forms, megas, mon_ids, form_enums, gm, loc, tps, mvs) ==
    IF form_enums.raised /= NoRaise THEN NoEnum(form_enums)
    ELSE Outcome(Passes(gm, [forms |-> forms, megas |-> megas, mon_ids |-> mon_ids,
                             form_enums |-> form_enums.value, locale |-> loc,
                             types |-> tps, moves |-> mvs]),
                 form_enums.cached_enums)

WithMonIds(forms, megas, mon_ids, protos, gm, loc, tps, mvs) ==
    IF mon_ids.raised /= NoRaise THEN NoEnum(mon_ids)
    ELSE WithFormEnums(forms, megas, mon_ids.value,
                       get_enum(mon_ids.cached_enums, protos, FormName, FALSE),
                       gm, loc, tps, mvs)

WithMegas(forms, megas, protos, gm, loc, tps, mvs) ==
    IF megas.raised /= NoRaise THEN NoEnum(megas)
    ELSE WithMonIds(forms, megas.value,
                    get_enum(megas.cached_enums, protos, MonIdName, FALSE),
                    protos, gm, loc, tps, mvs)

WithForms(forms, protos, gm, loc, tps, mvs) ==
    IF forms.raised /= NoRaise THEN NoEnum(forms)
    ELSE WithMegas(forms.value,
                   get_enum(forms.cached_enums, protos, MegaName, FALSE),
                   protos, gm, loc, tps, mvs)

\* PogoData.__make_mon_list: the three enums (lines 161-163), then the passes
make_mon_list(cache, protos, gm, loc, tps, mvs) ==
    WithForms(get_enum(cache, protos, FormName, FALSE), protos, gm, loc, tps, mvs)

\* reload, line 65: the attributes after __make_mon_list
WithMons(self, built) ==
    [self EXCEPT !.heap = built.heap, !.mons = built.mons,
                 !.cached_enums = built.cached_enums, !.raised = built.raised]

\* reload, lines 60-65
WithLists(self, tps, mvs) ==
    WithMons([self EXCEPT !.items = make_item_list(self.raw_gamemaster),
                          !.types = tps,
                          !.moves = mvs,
                          !.grunts = make_grunt_list(self.raw_gamemaster)],
             make_mon_list(self.cached_enums, self.raw_protos, self.raw_gamemaster,
                           self.locale, tps, mvs))

\* reload, lines 55-58, loc being the outcome of the loop
WithLocale(self, loc) ==
    IF loc.raised /= NoRaise
    THEN [self EXCEPT !.locale = loc.locale, !.raised = loc.raised]
    ELSE WithLists([self EXCEPT !.locale = loc.locale],
                   make_type_list(self.raw_gamemaster),
                   make_move_list(self.raw_gamemaster))

\* PogoData.reload: the object's attributes after the call, given the
\* attributes before it and the three documents fetched. An exception leaves
\* the attributes assigned so far.
reload(self, protos, gm, array) ==
    WithLocale([self EXCEPT !.raw_protos = protos, !.raw_gamemaster = gm,
                            !.raw_locale = array],
               LocaleLoop(EmptyDict, array, 1))
-----------------------------------------------------------------------------
(* The documents a reload can fetch *)

A == <<"A">>
B == <<"B">>
C == <<"C">>
A_F == <<"A_F">>
A_G == <<"A_G">>
X == <<"X">>
FIRE == <<"POKEMON_TYPE_", "FIRE">>
WATER == <<"POKEMON_TYPE_", "WATER">>
MegaId(i) == <<"MEGA_", Digit(i)>>

(* protocol texts *)
Block(name, entries) == [name |-> name, entries |-> entries]
KV(k, v) == [k |-> k, v |-> v]

FormBlocks == {Block(FormName, <<KV(A, 1), KV(A_F, 2)>>),
               Block(FormName, <<KV(A, 3), KV(A_G, 4)>>)}
MegaBlock == Block(MegaName, <<KV(MegaId(1), 1), KV(MegaId(2), 2)>>)
MonIdBlock == Block(MonIdName, <<KV(A, 1), KV(B, 2)>>)
\* further enums: a value used twice, a key defined twice, the name in lower case
ExtraBlocks == {<<>>,
                <<Block(X, <<KV(A, 1), KV(B, 1)>>)>>,
                <<Block(X, <<KV(A, 1), KV(A, 2), KV(B, 3)>>)>>,
                <<Block(lower(X), <<KV(B, 5)>>), Block(X, <<KV(A, 1)>>)>>}

Protos0 == <<Block(FormName, <<KV(A, 1), KV(A_F, 2)>>), MegaBlock, MonIdBlock>>
ProtoTexts ==
    {<<f, MegaBlock, MonIdBlock>> \o e : f \in FormBlocks, e \in ExtraBlocks}
    \cup {<<MegaBlock, MonIdBlock>> \o e : e \in ExtraBlocks}

EnumNames == {FormName, lower(FormName), X, lower(X), <<"Y">>}

(* locale arrays *)
NameKey1 == <<"pokemon_name_", "0", "0", "0", "1">>
Locale0 == <<NameKey1, <<"Alpha">>, NameKey1 \o <<"_", "0", "0", "0", "1">>, <<"Mega Alpha">>>>

LocaleKeys == {<<"k">>, <<"K">>, <<"j">>}
LocaleValues == {<<"v1">>, <<"v2">>}
LocaleQueries == LocaleKeys \cup {<<"J">>, <<"z">>}

RECURSIVE PairArrays(_)
\* the well-formed arrays of n key/value pairs
PairArrays(n) ==
    IF n = 0 THEN {<<>>}
    ELSE {a \o <<k, v>> : a \in PairArrays(n - 1), k \in LocaleKeys, v \in LocaleValues}

WellFormedArrays == UNION {PairArrays(n) : n \in 0..MaxLocalePairs}
LocaleArrays ==
    WellFormedArrays \cup {a \o <<k>> : a \in WellFormedArrays, k \in LocaleKeys}

(* settings dumps *)
Entry(tid, settings, data) == [templateId |-> tid, settings |-> settings, data |-> data]

\* the records of the entity factories, part of every dump
Common == <<Entry(FIRE, "typeSettings", EmptySettings),
            Entry(WATER, "typeSettings", EmptySettings),
            Entry(<<"V0001_MOVE_", "TACKLE">>, "moveSettings", EmptySettings),
            Entry(<<"ITEM_", "POTION">>, "itemSettings", EmptySettings),
            Entry(<<"CHARACTER_", "GRUNT">>, "invasionNpcDisplaySettings", EmptySettings)>>

\* the values of a type field: absent, null, empty, a full or a bare type name
TypeValues == {AbsentS, NoneS, <<>>, FIRE, <<"WATER">>}

Override(i, t1, t2) ==
    [tempEvoId |-> MegaId(i), typeOverride1 |-> t1, typeOverride2 |-> t2]
Overrides(n) == [i \in 1..n |-> Override(i, FIRE, AbsentS)]

Branch(evolution, form, temp) ==
    [evolution |-> evolution, form |-> form, temporaryEvolution |-> temp]
ToB == Branch(B, AbsentS, AbsentS)
ToC == Branch(C, AbsentS, AbsentS)
ToFormAF == Branch(A, A_F, AbsentS)
ToNullForm == Branch(B, NoneS, AbsentS)
ToMega == Branch(AbsentS, AbsentS, MegaId(1))
NoTarget == Branch(AbsentS, A_F, AbsentS)
Branches == {ToB, ToC, ToFormAF, ToNullForm, ToMega}
BranchLists == {<<>>} \cup {<<b>> : b \in Branches}
               \cup {<<b1, b2>> : b1 \in Branches, b2 \in {ToB, ToC}}

Settings(name, t1, t2, overrides, branches) ==
    [pokemonId |-> name, type |-> t1, type2 |-> t2,
     quickMoves |-> <<<<"TACKLE">>, <<"SPLASH">>>>,
     cinematicMoves |-> <<>>,
     tempEvoOverrides |-> overrides,
     evolutionBranch |-> branches]

PokemonEntry(tok, name, t1, t2, overrides, branches) ==
    Entry(<<tok>> \o name, "pokemonSettings", Settings(name, t1, t2, overrides, branches))
EntryA(t1, t2, overrides, branches) ==
    PokemonEntry("V0001_POKEMON_", A, t1, t2, overrides, branches)
EntryB == PokemonEntry("V0002_POKEMON_", B, <<"WATER">>, AbsentS, <<>>, <<Branch(A, AbsentS, AbsentS)>>)

FormEntry(form, value, suffix) ==
    [form |-> form, assetBundleValue |-> value, assetBundleSuffix |-> suffix]
FormEntries ==
    {FormEntry(A, <<"7">>, AbsentS),
     FormEntry(A_F, AbsentS, AbsentS),
     FormEntry(A_F, AbsentS, <<"sfx">>),
     FormEntry(A_G, <<"7">>, AbsentS),
     FormEntry(AbsentS, AbsentS, AbsentS)}

RECURSIVE FormLists(_)
FormLists(n) ==
    IF n = 0 THEN {<<>>}
    ELSE {l \o <<f>> : l \in FormLists(n - 1), f \in FormEntries}

FormsEntry(pokemon, forms) ==
    Entry(<<"FORMS_", "V0001_POKEMON_">> \o A, "formSettings",
          [pokemon |-> pokemon, forms |-> forms])

TempEvo(id, value) == [temporaryEvolutionId |-> id, assetBundleValue |-> value]
TempEvoEntry(pokemonId, evos) ==
    Entry(<<"TEMPORARY_EVOLUTION_", "V0001_POKEMON_">> \o A, "temporaryEvolutionSettings",
          [pokemonId |-> pokemonId, temporaryEvolutions |-> evos])
TempEvosOf(n) == [i \in 1..n |-> TempEvo(MegaId(i), <<"5", Digit(i)>>)]

\* dumps that vary the type fields of a base record and of an override
TypingDumps ==
    {Common \o <<EntryA(t1, t2, <<>>, <<>>)>> : t1 \in TypeValues, t2 \in TypeValues}
    \cup {Common \o <<EntryA(FIRE, AbsentS, <<Override(1, t1, t2)>>, <<>>)>> :
             t1 \in TypeValues, t2 \in TypeValues}

\* dumps that vary the overrides, the form copy and the temp-evolution assets
VariantDumpsOf(n) ==
    {Common \o <<EntryA(FIRE, WATER, Overrides(n), <<ToB>>)>> \o b \o f \o t :
        b \in {<<>>, <<EntryB>>},
        f \in {<<>>, <<FormsEntry(A, <<FormEntry(A_F, <<"7">>, AbsentS)>>)>>},
        t \in {<<>>, <<TempEvoEntry(A, TempEvosOf(n))>>}}
VariantDumps == UNION {VariantDumpsOf(n) : n \in 0..MaxOverrides}

\* dumps that vary the form entries
FormDumps ==
    {Common \o <<EntryA(FIRE, AbsentS, Overrides(1), <<ToFormAF>>), EntryB,
                 FormsEntry(A, l)>> :
        l \in UNION {FormLists(n) : n \in 0..MaxFormEntries}}

\* dumps that vary the evolution branches
EvolutionDumps ==
    {Common \o <<EntryA(FIRE, AbsentS, <<>>, l)>> \o b \o f :
        l \in BranchLists,
        b \in {<<>>, <<EntryB>>},
        f \in {<<>>, <<FormsEntry(A, <<FormEntry(A_F, AbsentS, AbsentS)>>)>>}}

\* dumps whose build raises, and a dump with one base template twice
FailingDumps ==
    {Common \o <<EntryA(FIRE, AbsentS, <<>>, <<>>), FormsEntry(C, <<FormEntry(A_F, AbsentS, AbsentS)>>)>>,
     Common \o <<EntryA(FIRE, AbsentS, <<>>, <<>>), FormsEntry(AbsentS, <<FormEntry(A_F, AbsentS, AbsentS)>>)>>,
     Common \o <<EntryA(FIRE, AbsentS, Overrides(1), <<>>), TempEvoEntry(B, TempEvosOf(1))>>,
     Common \o <<EntryA(FIRE, AbsentS, Overrides(1), <<>>), TempEvoEntry(A, <<TempEvo(MegaId(1), AbsentS)>>)>>,
     Common \o <<EntryA(FIRE, AbsentS, Overrides(1), <<>>), TempEvoEntry(A, <<TempEvo(AbsentS, <<"5">>)>>)>>,
     Common \o <<EntryA(FIRE, AbsentS, <<>>, <<ToB, NoTarget>>), EntryB>>}
DuplicateDump ==
    Common \o <<EntryA(FIRE, AbsentS, <<>>, <<>>),
                PokemonEntry("V0002_POKEMON_", A, <<"WATER">>, AbsentS, <<>>, <<>>)>>

GM0 == Common \o <<EntryA(FIRE, AbsentS, Overrides(1), <<ToB>>), EntryB>>
Dumps == TypingDumps \cup VariantDumps \cup FormDumps \cup EvolutionDumps
         \cup {DuplicateDump}
\* the dumps a later reload fetches
ReloadDumps == FailingDumps \cup {GM0, DuplicateDump,
    Common \o <<EntryA(AbsentS, WATER, Overrides(MaxOverrides), <<ToC, ToB>>),
                FormsEntry(A, <<FormEntry(A_F, <<"7">>, AbsentS), FormEntry(A_F, AbsentS, AbsentS)>>)>>}

-----------------------------------------------------------------------------
(* The object and its operations *)

Self == [raw_protos |-> raw_protos, raw_gamemaster |-> raw_gamemaster,
         raw_locale |-> raw_locale, locale |-> locale, cached_enums |-> cached_enums, items |-> items,
         types |-> types, moves |-> moves, grunts |-> grunts,
         heap |-> heap, mons |-> mons, raised |-> NoRaise]

\* the object before __init__ calls reload: only the enum cache is set
Fresh == [raw_protos |-> <<>>, raw_gamemaster |-> <<>>, raw_locale |-> <<>>,
          locale |-> EmptyDict,
          cached_enums |-> EmptyDict, items |-> <<>>, types |-> <<>>,
          moves |-> <<>>, grunts |-> <<>>, heap |-> <<>>, mons |-> <<>>,
          raised |-> NoRaise]

\* the attributes after a reload, and its outcome
Becomes(r, op) ==
    /\ raw_protos' = r.raw_protos
    /\ raw_gamemaster' = r.raw_gamemaster
    /\ raw_locale' = r.raw_locale
    /\ locale' = r.locale
    /\ cached_enums' = r.cached_enums
    /\ items' = r.items
    /\ types' = r.types
    /\ moves' = r.moves
    /\ grunts' = r.grunts
    /\ heap' = r.heap
    /\ mons' = r.mons
    /\ call' = [op |-> op]
    /\ ret' = [raised |-> r.raised, value |-> <<>>]

Starts(r) ==
    /\ r.raised = NoRaise
    /\ raw_protos = r.raw_protos
    /\ raw_gamemaster = r.raw_gamemaster
    /\ raw_locale = r.raw_locale
    /\ locale = r.locale
    /\ cached_enums = r.cached_enums
    /\ items = r.items
    /\ types = r.types
    /\ moves = r.moves
    /\ grunts = r.grunts
    /\ heap = r.heap
    /\ mons = r.mons
    /\ call = [op |-> "init"]
    /\ ret = [raised |-> NoRaise, value |-> <<>>]

\* PogoData(...): an object exists only if the reload of __init__ returns
Constructed(protos, gm, array) == Starts(reload(Fresh, protos, gm, array))

Reload(protos, gm, array) == Becomes(reload(Self, protos, gm, array), "reload")

Resolved(r, enum, reverse) ==
    /\ cached_enums' = r.cached_enums
    /\ call' = [op |-> "get_enum", enum |-> enum, reverse |-> reverse]
    /\ ret' = [raised |-> r.raised, value |-> r.value]
    /\ UNCHANGED <<raw_protos, raw_gamemaster, raw_locale, locale, items, types, moves,
                   grunts, heap, mons>>

GetEnum(enum, reverse) ==
    Resolved(get_enum(cached_enums, raw_protos, enum, reverse), enum, reverse)

LookedUp(r, key) ==
    /\ locale' = r.locale
    /\ call' = [op |-> "get_locale", key |-> key]
    /\ ret' = [raised |-> NoRaise, value |-> r.value]
    /\ UNCHANGED <<raw_protos, raw_gamemaster, raw_locale, cached_enums, items, types,
                   moves, grunts, heap, mons>>

GetLocale(key) == LookedUp(get_locale(locale, key), key)

MonFound(r, get_one, args) ==
    /\ heap' = r.heap
    /\ call' = [op |-> "get_mon", get_one |-> get_one, args |-> args]
    /\ ret' = [raised |-> r.raised, value |-> r.value]
    /\ UNCHANGED <<raw_protos, raw_gamemaster, raw_locale, locale, cached_enums, items,
                   types, moves, grunts, mons>>

GetMon(get_one, args) == MonFound(get_mon(heap, mons, get_one, args), get_one, args)

Finder(op, found, args) ==
    /\ call' = [op |-> op, args |-> args]
    /\ ret' = [raised |-> NoRaise, value |-> found]
    /\ UNCHANGED <<raw_protos, raw_gamemaster, raw_locale, locale, cached_enums, items,
                   types, moves, grunts, heap, mons>>

GetType(args) == Finder("get_type", get_type(types, args), args)
GetItem(args) == Finder("get_item", get_item(items, args), args)
GetMove(args) == Finder("get_move", get_move(moves, args), args)
GetGrunt(args) == Finder("get_grunt", get_grunt(grunts, args), args)

(* the arguments of the queries *)
MonArgs ==
    {[template |-> t] : t \in {A, A_F, C}}
    \cup {[template |-> t, costume |-> c] : t \in {A, A_F, C}, c \in {0, 1}}
    \cup {[base_template |-> A, temp_evolution_template |-> MegaId(1)],
          [base_template |-> A, temp_evolution_template |-> MegaId(1), costume |-> 1],
          [costume |-> 1]}
TypeArgs == {[template |-> t] : t \in {FIRE, <<"WATER">>, <<"ICE">>}}
ItemArgs == {[template |-> t] : t \in {<<"ITEM_", "POTION">>, <<"ITEM_", "REVIVE">>}}
MoveArgs == {[template |-> t] : t \in {<<"TACKLE">>, <<"SPLASH">>}}
GruntArgs == {[template |-> t] : t \in {<<"CHARACTER_", "GRUNT">>, <<"CHARACTER_", "BOSS">>}}

-----------------------------------------------------------------------------
(* Specifications *)

\* the enum index: the protocol text changes from reload to reload
InitEnum == \E p \in ProtoTexts : Constructed(p, GM0, Locale0)
ReloadProtos == \E p \in ProtoTexts : Reload(p, GM0, Locale0)
ResolveEnum == \E enum \in EnumNames, reverse \in BOOLEAN : GetEnum(enum, reverse)
NextEnum == ReloadProtos \/ ResolveEnum
SpecEnum == InitEnum /\ [][NextEnum]_vars

\* the locale table: the locale array changes from reload to reload
InitLocale == \E l \in LocaleArrays : Constructed(Protos0, GM0, l)
ReloadLocale == \E l \in LocaleArrays : Reload(Protos0, GM0, l)
LookupLocale == \E key \in LocaleQueries : GetLocale(key)
NextLocale == ReloadLocale \/ LookupLocale
SpecLocale == InitLocale /\ [][NextLocale]_vars

\* the creature list and the queries: the settings dump changes
InitBuild == \E g \in Dumps : Constructed(Protos0, g, Locale0)
ReloadDump == \E g \in ReloadDumps : Reload(Protos0, g, Locale0)
FindMons == \E get_one \in BOOLEAN, args \in MonArgs : GetMon(get_one, args)
FindType == \E args \in TypeArgs : GetType(args)
FindItem == \E args \in ItemArgs : GetItem(args)
FindMove == \E args \in MoveArgs : GetMove(args)
FindGrunt == \E args \in GruntArgs : GetGrunt(args)
LookupName == \E key \in {NameKey1, <<"k">>} : GetLocale(key)
NextBuild == ReloadDump \/ FindMons \/ FindType \/ FindItem \/ FindMove
             \/ FindGrunt \/ LookupName
SpecBuild == InitBuild /\ [][NextBuild]_vars

-----------------------------------------------------------------------------
(* Properties *)

Mon(i) == heap[mons[i]]
IsBase(m) == m.type = POKEMON_TYPES[1]
IsForm(m) == m.type = POKEMON_TYPES[2]
IsVariant(m) == m.type = POKEMON_TYPES[3]
InCatalog(ref) == \E k \in DOMAIN mons : mons[k] = ref
\* the latest operation was a build that ran to its end
Built == call.op \in {"init", "reload"} /\ ret.raised = NoRaise
\* the first creature of the catalog with this template, 0 if there is none
FirstWithTemplate(t) ==
    IF \E k \in DOMAIN mons : Mon(k).template = t
    THEN mons[CHOOSE k \in DOMAIN mons :
                 /\ Mon(k).template = t
                 /\ \A l \in 1..(k - 1) : Mon(l).template /= t]
    ELSE 0

(* C1: after a reload, get_enum(name) returns the mapping parsed from the    *)
(* protocol text fetched by that latest reload, never a mapping of an       *)
(* earlier text, also for a name resolved before the reload.                *)
C1_ResolvesLatestText ==
    (call.op = "get_enum" /\ ~call.reverse /\ ret.raised = NoRaise)
        => /\ FindAll(raw_protos, call.enum) /= <<>>
           /\ ret.value = ParseBlock(FindAll(raw_protos, call.enum)[1])

(* C2: get_enum(name, reverse=True) returns the value -> key inversion of   *)
(* the mapping get_enum(name) returns, whether or not the name was cached.  *)
C2_ReverseInverts ==
    (call.op = "get_enum" /\ call.reverse /\ ret.raised = NoRaise)
        => ret.value =
              Invert(get_enum(cached_enums, raw_protos, call.enum, FALSE).value)

(* C3: a single-match get_mon with a positive costume and other criteria    *)
(* does not filter by costume: when a creature matches the other criteria,  *)
(* the result is a copy of the first such creature with the costume set.    *)
C3_CostumeIsNoFilter ==
    (/\ call.op = "get_mon" /\ call.get_one
     /\ CostumeOf(call.args) > 0
     /\ DOMAIN call.args /= {"costume"}
     /\ AllWanted(Objects(heap, mons), WithoutCostume(call.args)) /= <<>>)
        => /\ ret.raised = NoRaise
           /\ ret.value.kind = "copy"
           /\ ret.value.refs =
                 <<mons[AllWanted(Objects(heap, mons), WithoutCostume(call.args))[1]]>>
           /\ ret.value.costume = call.args.costume

(* C4: no query changes the catalog: a get_mon (with or without a positive  *)
(* costume), get_type, get_item, get_move, get_grunt or get_locale call     *)
(* leaves the five lists, every field of every creature and the locale      *)
(* table as they were.                                                       *)
QueryOps == {"get_mon", "get_type", "get_item", "get_move", "get_grunt", "get_locale"}
C4_QueriesKeepCatalog == [][call'.op \in QueryOps => catalog' = catalog]_vars

\* a positive-costume query for a template the catalog holds has been made
C4_Witness ==
    /\ call.op = "get_mon"
    /\ CostumeOf(call.args) > 0
    /\ AllWanted(Objects(heap, mons), WithoutCostume(call.args)) /= <<>>

(* C5: get_enum(name) raises KeyError for every name without a block in the *)
(* protocol text, stores nothing for it, and raises again when called again. *)
C5_MissingNameRaises ==
    (call.op = "get_enum" /\ FindAll(raw_protos, call.enum) = <<>>)
        => /\ ret.raised = "KeyError"
           /\ ~HasKey(cached_enums, lower(call.enum))
           /\ get_enum(cached_enums, raw_protos, call.enum, call.reverse).raised
                 = "KeyError"

(* C6: for an even-length locale array whose keys differ ignoring case,     *)
(* get_locale(q) returns the value after the key that equals q ignoring     *)
(* case, whatever the case of the stored key, and "?" only without one.     *)
Pairs(a) == 1..(Len(a) \div 2)
KeyAt(a, i) == a[2 * i - 1]
ValueAt(a, i) == a[2 * i]
CaseDistinct(a) ==
    \A i, j \in Pairs(a) : i /= j => lower(KeyAt(a, i)) /= lower(KeyAt(a, j))
C6_LookupIgnoresCase ==
    (/\ call.op = "get_locale"
     /\ Len(raw_locale) % 2 = 0
     /\ CaseDistinct(raw_locale))
        => /\ \A i \in Pairs(raw_locale) :
                 lower(KeyAt(raw_locale, i)) = lower(call.key)
                    => ret.value = ValueAt(raw_locale, i)
           /\ (\A i \in Pairs(raw_locale) :
                 lower(KeyAt(raw_locale, i)) /= lower(call.key))
                    => ret.value = <<"?">>

(* C7: after the evolution pass, the evolutions of every creature hold the  *)
(* catalog creature of every non-temporary branch whose target template is  *)
(* in the list and nothing for a branch whose target is not: every element  *)
(* is a creature of the catalog.                                             *)
LinkedBranches(m) ==
    SelectSeq(RawList(m.raw, "evolutionBranch"),
              LAMBDA b : /\ ~RawHas(b, "temporaryEvolution")
                         /\ FirstWithTemplate(EvolutionTarget(b)) /= 0)
C7_EvolutionsAreCatalogCreatures ==
    Built => \A i \in DOMAIN mons :
        /\ \A j \in DOMAIN Mon(i).evolutions :
              Mon(i).evolutions[j] /= 0 /\ InCatalog(Mon(i).evolutions[j])
        /\ Mon(i).evolutions =
              [j \in DOMAIN LinkedBranches(Mon(i)) |->
                  FirstWithTemplate(EvolutionTarget(LinkedBranches(Mon(i))[j]))]

(* C8: every temporary-evolution variant of the catalog is linked to the    *)
(* base creature it was built from: its base_template is the template of    *)
(* that creature, and the temp_evolutions of a base creature are exactly    *)
(* the variants of its own override list, one per entry, in source order,   *)
(* each of them a creature of the catalog.                                   *)
OverridesOf(m) == RawList(m.raw, "tempEvoOverrides")
SettingsRecords(settings) ==
    SelectSeq(raw_gamemaster, LAMBDA e : e.settings = settings)
BaseTemplatesDistinct ==
    \A i, j \in DOMAIN SettingsRecords("pokemonSettings") :
        i /= j => Tail(SettingsRecords("pokemonSettings")[i].templateId)
                  /= Tail(SettingsRecords("pokemonSettings")[j].templateId)
\* what the passes read, taken from the object
EnvNow ==
    [forms |-> DictGet(cached_enums, lower(FormName), EmptyDict),
     megas |-> DictGet(cached_enums, lower(MegaName), EmptyDict),
     mon_ids |-> DictGet(cached_enums, lower(MonIdName), EmptyDict),
     form_enums |-> DictGet(cached_enums, lower(FormName), EmptyDict),
     locale |-> locale, types |-> types, moves |-> moves]
\* the creature without what the later passes set on a creature they find
WithoutAssets(m) ==
    [m EXCEPT !.asset_value = NoneS, !.asset_suffix = NoneS, !.asset = <<>>,
              !.evolutions = <<>>, !.temp_evolutions = <<>>]
C9_NoSecondEntity ==
    BaseTemplatesDistinct =>
        /\ \A i, j \in DOMAIN mons :
              (i /= j /\ ~IsVariant(Mon(i)) /\ ~IsVariant(Mon(j)))
                 => Mon(i).template /= Mon(j).template
        /\ \A i \in DOMAIN mons : IsBase(Mon(i)) =>
              \E r \in DOMAIN SettingsRecords("pokemonSettings") :
                 WithoutAssets(Mon(i)) =
                    BaseMon(SettingsRecords("pokemonSettings")[r].data,
                            Tail(SettingsRecords("pokemonSettings")[r].templateId),
                            EnvNow)

\* a build ran over a form list that names one template twice, or names the
\* template of a base record
C9_Witness ==
    /\ Built
    /\ BaseTemplatesDistinct
    /\ \E r \in DOMAIN SettingsRecords("formSettings") :
          LET forms == RawList(SettingsRecords("formSettings")[r].data, "forms")
          IN  /\ \E a, b \in DOMAIN forms : a < b /\ forms[a].form = forms[b].form
              /\ \E a \in DOMAIN forms, i \in DOMAIN mons :
                    IsBase(Mon(i)) /\ Mon(i).template = forms[a].form

(* C10 as stated: a creature of Pass 1 has at most two types, and exactly   *)
(* one if and only if the secondary type field of its record is absent or   *)
(* null, whatever fields are present.                                        *)
Primary(m) ==
    IF IsVariant(m) THEN RawGet(m.raw, "typeOverride1") ELSE RawGet(m.raw, "type")
Secondary(m) ==
    IF IsVariant(m) THEN RawGet(m.raw, "typeOverride2") ELSE RawGet(m.raw, "type2")
C10_OneTypeIffNoSecondary ==
    \A i \in DOMAIN mons : ~IsForm(Mon(i)) =>
        /\ Len(Mon(i).types) <= 2
        /\ (Len(Mon(i).types) = 1 <=> Secondary(Mon(i)) = NoneS)

(* C10 amended: a creature of Pass 1 has one type for each of the two type  *)
(* fields of its record that is present with a non-empty value, so at most  *)
(* two; when the primary field holds a type, it has exactly one type if and *)
(* only if the secondary field is absent, null or empty.                    *)
Count(v) == IF Truthy(v) THEN 1 ELSE 0
C10_OneTypePerField ==
    \A i \in DOMAIN mons : ~IsForm(Mon(i)) =>
        /\ Len(Mon(i).types) = Count(Primary(Mon(i))) + Count(Secondary(Mon(i)))
        /\ Len(Mon(i).types) <= 2
        /\ Truthy(Primary(Mon(i)))
              => (Len(Mon(i).types) = 1 <=> ~Truthy(Secondary(Mon(i))))

\* a creature was built from a record without a primary type
C10_Witness ==
    \E i \in DOMAIN mons :
        /\ ~IsForm(Mon(i))
        /\ Primary(Mon(i)) = NoneS
        /\ Truthy(Secondary(Mon(i)))
        /\ Len(Mon(i).types) = 1
====
